---- MODULE Spec2Model ----
(***************************************************************************)
(* A model of electron-forge's orchestration code:                         *)
(*   - the import orchestrator   (src/src/api/import.js, lines 1-215)      *)
(*   - the package orchestrator  (src/src/api/import.js, lines 216-347)    *)
(*   - the maker config merge    (src/unnamed/part_000)                    *)
(* Each orchestrator is an async function; every await is a step of the    *)
(* state machine and the position in the function is a program counter.    *)
(***************************************************************************)
EXTENDS Integers, Sequences, FiniteSets, TLC

VARIABLES
    \* ---- the project directory, as the import orchestrator sees it
    dirExists,      \* fs.exists(dir)
    disk,           \* package.json on disk: [exists, json]
    gitignore,      \* .gitignore: [exists, text], text a sequence of characters
    babelrc,        \* .babelrc: [exists, json]
    compilerc,      \* .compilerc: [exists, json]
    nodeModules,    \* node_modules/<name>/package.json version, "" when not installed
    gitRepo,        \* whether initGit has initialised the directory
    \* ---- one run of import
    ipc,            \* position in the import function
    interactive,    \* the run's `interactive` option
    packageJSON,    \* the in-memory manifest
    electronName,   \* "" while undefined
    electronVersion,\* "" while undefined
    exitCode,       \* process.exit code, -1 while the process has not exited
    declined,       \* the confirmation the user declined, "" if none
    prompts,        \* the prompts asked in this run
    effects,        \* the side effects of this run, in order
    runs,           \* import runs started on this directory
    readJSON,       \* history: the manifest as this run read it
    \* ---- history of the directory (never read by the program)
    disk0,          \* package.json as it was before the first run
    gitignore0,     \* .gitignore as it was before the first run
    ignoreWrites,   \* .gitignore writes over all runs
    \* ---- one run of package: what it is given
    arch,           \* the `arch` option
    dirFound,       \* whether resolveDir finds a project
    dirSymlinked,   \* whether the path resolveDir returns goes through a symbolic link
    manifestMain,   \* packageJSON.main, a relative path as a sequence of segments
    userConfig,     \* forgeConfig.electronPackagerConfig
    \* ---- one run of package: its state
    ppc,            \* position in the package function
    packageOpts,    \* the options object, once assembled
    packagerSpinner,\* whether packagerSpinner has been assigned
    prepareCounter,
    stagedForge,    \* whether the staged manifest still holds config.forge
    stepLog,        \* start and end of the lifecycle hooks and of the engine call
    pkgError,       \* what the run rejected with, "" if nothing
    \* ---- the packaging engine, while it is running
    engineArgs,     \* the options it was called with
    enginePhase,
    targetsLeft,
    \* ---- the maker configuration
    mpc,            \* position: "start", "populated", "merged"
    forgeConfig,    \* the project's forge configuration
    pkgArch,        \* the architecture given to the merge
    outPath,        \* the output path given to the merge
    config,         \* populate's result: [shared, maker]
    merged,         \* the merged configuration
    written         \* the owners of the objects the merge assigned into

varsImport == <<dirExists, disk, gitignore, babelrc, compilerc, nodeModules, gitRepo,
                ipc, interactive, packageJSON, electronName, electronVersion, exitCode,
                declined, prompts, effects, runs, readJSON, disk0, gitignore0,
                ignoreWrites>>

varsPackage == <<arch, dirFound, dirSymlinked, manifestMain, userConfig, ppc, packageOpts,
                 packagerSpinner, prepareCounter, stagedForge, stepLog, pkgError,
                 engineArgs, enginePhase, targetsLeft>>

varsMerge == <<mpc, forgeConfig, pkgArch, outPath, config, merged, written>>

vars == <<varsImport, varsPackage, varsMerge>>

----------------------------------------------------------------------------
(* Bounds of the model *)

\* declared dependency keys (dependencies + devDependencies) of an initial manifest
MaxKeys == 2
\* import runs on one directory
MaxRuns == 2
\* lines of an initial .gitignore
MaxLines == 2
\* hooks a project declares for one lifecycle point of the engine
MaxHooks == 2
\* targets one call of the packaging engine builds
MaxTargets == 2
\* elements of an array of a maker configuration
MaxArr == 2

----------------------------------------------------------------------------
(* JavaScript objects as functions with optional keys *)

Has(o, k) == k \in DOMAIN o

SetField(o, k, v) == [x \in DOMAIN o \cup {k} |-> IF x = k THEN v ELSE o[x]]

EmptyObject == [x \in {} |-> ""]

\* Object.assign(target, source)
ObjectAssign(target, source) ==
    [x \in DOMAIN target \cup DOMAIN source |->
        IF x \in DOMAIN source THEN source[x] ELSE target[x]]

(* A dependency mapping (name -> version range) keeps insertion order: it is
   a sequence of entries with distinct names. *)
DepEntry(n, r) == [name |-> n, range |-> r]

DepNamesOf(d) == {d[i].name : i \in 1..Len(d)}

\* Object.keys(mapping)
ObjectKeys(d) == [i \in 1..Len(d) |-> d[i].name]

\* delete mapping[key]
DeleteKey(d, key) == SelectSeq(d, LAMBDA e : e.name # key)

\* mapping[key] = value
PutKey(d, key, value) ==
    IF key \in DepNamesOf(d)
    THEN [i \in 1..Len(d) |-> IF d[i].name = key THEN DepEntry(key, value) ELSE d[i]]
    ELSE Append(d, DepEntry(key, value))

RangeOf(d, key) == d[CHOOSE i \in 1..Len(d) : d[i].name = key].range

----------------------------------------------------------------------------
(* Text files as sequences of characters *)

NL == "\n"

OutWord == <<"o", "u", "t">>

OutEntry == <<"o", "u", "t", "/">>

\* Buffer.includes(pattern) / String.includes(pattern)
Includes(text, pat) ==
    \E i \in 1..(Len(text) - Len(pat) + 1) : SubSeq(text, i, i + Len(pat) - 1) = pat

RECURSIVE SplitLines(_)
SplitLines(text) ==
    IF \A i \in 1..Len(text) : text[i] # NL
    THEN <<text>>
    ELSE LET i == CHOOSE j \in 1..Len(text) :
                      text[j] = NL /\ \A k \in 1..(j - 1) : text[k] # NL
         IN  <<SubSeq(text, 1, i - 1)>> \o SplitLines(SubSeq(text, i + 1, Len(text)))

\* the number of lines of the text that are exactly the entry
EntryCount(text, entry) ==
    LET ls == SplitLines(text) IN Cardinality({i \in 1..Len(ls) : ls[i] = entry})

RECURSIVE JoinLines(_)
JoinLines(ls) ==
    IF Len(ls) = 0 THEN <<>>
    ELSE IF Len(ls) = 1 THEN ls[1]
    ELSE ls[1] \o <<NL>> \o JoinLines(Tail(ls))

----------------------------------------------------------------------------
(* The import orchestrator: constants of the code *)

LegacyKeys == {"electron", "electron-prebuilt"}

CompileKey == "electron-prebuilt-compile"

\* the keys of buildToolPackages
BuildToolPackages ==
    {"electron-builder", "electron-download", "electron-installer-debian",
     "electron-installer-dmg", "electron-installer-flatpak", "electron-installer-redhat",
     "electron-osx-sign", "electron-packager", "electron-winstaller"}

\* config.forge of the template manifest (../tmpl/package.json)
TemplateForge == "template-forge-config"

BabelKey == "application/javascript"

(* Inputs of the model *)

\* names a manifest may declare
DepNames == {"electron", "electron-prebuilt", "electron-packager", "lodash"}

DeclaredRange == "^1.0.0"

\* versions of an installed runtime package
Versions == {"1.4.0", "1.6.2"}

\* answers to the "uncompiled main file" prompt
MainInputs == {"src/index.js"}

\* the packages whose installed manifest import reads
ModuleNames == LegacyKeys

----------------------------------------------------------------------------
(* The import orchestrator: steps *)

Terminal == {"idle", "done", "exited", "failed"}

Prompt(n, k) == [name |-> n, key |-> k]

\* process.exit(code): nothing of the run executes afterwards
ProcessExit(code) ==
    /\ ipc' = "exited"
    /\ exitCode' = code

FilesUnchanged ==
    UNCHANGED <<dirExists, disk, gitignore, babelrc, compilerc, nodeModules,
                disk0, gitignore0, ignoreWrites>>

\* a mutant of ProjectMissing: only the directory is looked for
ProjectMissingDirOnly == ~dirExists

\* !fs.exists(dir) || !fs.exists(dir/package.json)
ProjectMissing == ~dirExists \/ ~disk.exists

\* The call, and the check that the directory holds a project.
ImportValidate ==
    /\ ipc \in Terminal
    /\ runs < MaxRuns
    /\ runs' = runs + 1
    /\ \E i \in BOOLEAN : interactive' = i
    /\ packageJSON' = EmptyObject
    /\ readJSON' = EmptyObject
    /\ electronName' = ""
    /\ electronVersion' = ""
    /\ declined' = ""
    /\ prompts' = {}
    /\ effects' = <<>>
    /\ IF ProjectMissing
       THEN ProcessExit(1)
       ELSE ipc' = "confirm" /\ exitCode' = -1
    /\ FilesUnchanged
    /\ UNCHANGED gitRepo
    /\ UNCHANGED <<varsPackage, varsMerge>>

\* The confirmation gate of the whole import.
ImportConfirm ==
    /\ ipc = "confirm"
    /\ \E answer \in BOOLEAN :
          LET confirm == ~interactive \/ answer IN
          /\ interactive \/ answer
          /\ prompts' = IF interactive THEN prompts \cup {Prompt("confirm", "")} ELSE prompts
          /\ IF ~confirm
             THEN ProcessExit(1) /\ declined' = "confirm"
             ELSE ipc' = "initGit" /\ UNCHANGED <<exitCode, declined>>
    /\ FilesUnchanged
    /\ UNCHANGED <<readJSON, gitRepo, interactive, packageJSON, electronName, electronVersion,
                   effects, runs>>
    /\ UNCHANGED <<varsPackage, varsMerge>>

ImportInitGit ==
    /\ ipc = "initGit"
    /\ gitRepo' = TRUE
    /\ effects' = Append(effects, "initGit")
    /\ ipc' = "readManifest"
    /\ FilesUnchanged
    /\ UNCHANGED <<readJSON, interactive, packageJSON, electronName, electronVersion,
                   exitCode, declined, prompts, runs>>
    /\ UNCHANGED <<varsPackage, varsMerge>>

\* Reads the manifest; an already configured project asks whether to continue.
ImportReadManifest ==
    /\ ipc = "readManifest"
    /\ packageJSON' = disk.json
    /\ readJSON' = disk.json
    /\ IF Has(disk.json, "config") /\ Has(disk.json.config, "forge")
       THEN \E answer \in BOOLEAN :
               LET shouldContinue == ~interactive \/ answer IN
               /\ interactive \/ answer
               /\ prompts' = IF interactive
                             THEN prompts \cup {Prompt("shouldContinue", "")}
                             ELSE prompts
               /\ IF ~shouldContinue
                  THEN ProcessExit(0) /\ declined' = "shouldContinue"
                  ELSE ipc' = "changeMain" /\ UNCHANGED <<exitCode, declined>>
       ELSE ipc' = "changeMain" /\ UNCHANGED <<exitCode, declined, prompts>>
    /\ FilesUnchanged
    /\ UNCHANGED <<gitRepo, interactive, electronName, electronVersion, effects, runs>>
    /\ UNCHANGED <<varsPackage, varsMerge>>

ImportChangeMain ==
    /\ ipc = "changeMain"
    /\ \E answer \in BOOLEAN :
          LET shouldChangeMain == interactive /\ answer IN
          /\ interactive \/ ~answer
          /\ IF shouldChangeMain
             THEN \E newMain \in MainInputs :
                     /\ packageJSON' = SetField(packageJSON, "main", newMain)
                     /\ prompts' = prompts \cup {Prompt("shouldChangeMain", ""),
                                                 Prompt("newMain", "")}
             ELSE /\ packageJSON' = packageJSON
                  /\ prompts' = IF interactive
                                THEN prompts \cup {Prompt("shouldChangeMain", "")}
                                ELSE prompts
    /\ ipc' = "scan"
    /\ FilesUnchanged
    /\ UNCHANGED <<readJSON, gitRepo, interactive, electronName, electronVersion, exitCode,
                   declined, effects, runs>>
    /\ UNCHANGED <<varsPackage, varsMerge>>

(* A mutant of ScanKeys: the runtime key is deleted from `dependencies` only. *)
RECURSIVE ScanKeysDepsOnly(_, _, _, _)
ScanKeysDepsOnly(keys, i, st, remove) ==
    IF i > Len(keys) THEN st
    ELSE LET key == keys[i]
             deleted == [st EXCEPT !.deps = DeleteKey(st.deps, key),
                                   !.dev = DeleteKey(st.dev, key)]
         IN  IF key \in LegacyKeys
             THEN ScanKeysDepsOnly(keys, i + 1,
                      [st EXCEPT !.deps = DeleteKey(st.deps, key), !.name = key], remove)
             ELSE IF key \in BuildToolPackages
             THEN ScanKeysDepsOnly(keys, i + 1, IF remove[i] THEN deleted ELSE st, remove)
             ELSE ScanKeysDepsOnly(keys, i + 1, st, remove)

(* The loop over the declared keys. st is [deps, dev, name]; remove[i] is the
   answer to the removal prompt asked at key i. *)
RECURSIVE ScanKeys(_, _, _, _)
ScanKeys(keys, i, st, remove) ==
    IF i > Len(keys) THEN st
    ELSE LET key == keys[i]
             deleted == [st EXCEPT !.deps = DeleteKey(st.deps, key),
                                   !.dev = DeleteKey(st.dev, key)]
         IN  IF key \in LegacyKeys
             THEN ScanKeys(keys, i + 1, [deleted EXCEPT !.name = key], remove)
             ELSE IF key \in BuildToolPackages
             THEN ScanKeys(keys, i + 1, IF remove[i] THEN deleted ELSE st, remove)
             ELSE ScanKeys(keys, i + 1, st, remove)

ImportScanDependencies ==
    /\ ipc = "scan"
    /\ LET deps == IF Has(packageJSON, "dependencies")
                   THEN packageJSON.dependencies ELSE <<>>
           dev  == IF Has(packageJSON, "devDependencies")
                   THEN packageJSON.devDependencies ELSE <<>>
           keys == ObjectKeys(deps) \o ObjectKeys(dev)
           asked == {i \in 1..Len(keys) : keys[i] \in BuildToolPackages}
       IN  \E remove \in [1..Len(keys) -> BOOLEAN] :
              /\ \A i \in 1..Len(keys) : (~interactive \/ i \notin asked) => remove[i]
              /\ LET st == ScanKeys(keys, 1, [deps |-> deps, dev |-> dev, name |-> ""],
                                    remove)
                 IN  /\ packageJSON' = SetField(SetField(packageJSON,
                                           "dependencies", st.deps),
                                           "devDependencies", st.dev)
                     /\ electronName' = st.name
              /\ prompts' = IF interactive
                            THEN prompts \cup
                                 {Prompt("shouldRemoveDependency", keys[i]) : i \in asked}
                            ELSE prompts
    /\ ipc' = "readElectron"
    /\ FilesUnchanged
    /\ UNCHANGED <<readJSON, gitRepo, interactive, electronVersion, exitCode, declined, effects,
                   runs>>
    /\ UNCHANGED <<varsPackage, varsMerge>>

\* Reads the installed runtime package's version; the read fails when the
\* package is not installed, and the import rejects.
ImportReadElectronVersion ==
    /\ ipc = "readElectron"
    /\ IF electronName = ""
       THEN /\ ipc' = "write"
            /\ UNCHANGED <<packageJSON, electronVersion>>
       ELSE IF nodeModules[electronName] = ""
       THEN /\ ipc' = "failed"
            /\ UNCHANGED <<packageJSON, electronVersion>>
       ELSE /\ electronVersion' = nodeModules[electronName]
            /\ packageJSON' = SetField(packageJSON, "devDependencies",
                                  PutKey(packageJSON.devDependencies, CompileKey,
                                         nodeModules[electronName]))
            /\ ipc' = "write"
    /\ FilesUnchanged
    /\ UNCHANGED <<readJSON, gitRepo, interactive, electronName, exitCode, declined, prompts,
                   effects, runs>>
    /\ UNCHANGED <<varsPackage, varsMerge>>

\* writeChanges(): JSON.stringify of the in-memory manifest, which here holds
\* strings and mappings only, so that reading it back gives the same value.
WriteChanges(json) == [exists |-> TRUE, json |-> json]

ImportWriteManifest ==
    /\ ipc = "write"
    /\ disk' = WriteChanges(packageJSON)
    /\ effects' = Append(effects, "writeManifest")
    /\ ipc' = IF electronName # "" THEN "prune" ELSE "inject"
    /\ UNCHANGED <<dirExists, gitignore, babelrc, compilerc, nodeModules, disk0,
                   gitignore0, ignoreWrites>>
    /\ UNCHANGED <<readJSON, gitRepo, interactive, packageJSON, electronName, electronVersion,
                   exitCode, declined, prompts, runs>>
    /\ UNCHANGED <<varsPackage, varsMerge>>

ImportPrune ==
    /\ ipc = "prune"
    /\ effects' = Append(effects, "prune")
    /\ ipc' = "install"
    /\ FilesUnchanged
    /\ UNCHANGED <<readJSON, gitRepo, interactive, packageJSON, electronName, electronVersion,
                   exitCode, declined, prompts, runs>>
    /\ UNCHANGED <<varsPackage, varsMerge>>

\* Removes the runtime package from node_modules and runs the installs.
ImportInstall ==
    /\ ipc = "install"
    /\ nodeModules' = [nodeModules EXCEPT ![electronName] = ""]
    /\ effects' = Append(effects, "install")
    /\ ipc' = "inject"
    /\ UNCHANGED <<dirExists, disk, gitignore, babelrc, compilerc, disk0, gitignore0,
                   ignoreWrites>>
    /\ UNCHANGED <<readJSON, gitRepo, interactive, packageJSON, electronName, electronVersion,
                   exitCode, declined, prompts, runs>>
    /\ UNCHANGED <<varsPackage, varsMerge>>

\* Re-reads the manifest, injects the template's forge configuration, writes.
ImportInjectForgeConfig ==
    /\ ipc = "inject"
    /\ LET read == disk.json
           cfg == IF Has(read, "config") THEN read.config ELSE EmptyObject
           json == SetField(read, "config", SetField(cfg, "forge", TemplateForge))
       IN  /\ packageJSON' = json
           /\ disk' = WriteChanges(json)
    /\ effects' = Append(effects, "writeManifest")
    /\ ipc' = "gitignore"
    /\ UNCHANGED <<dirExists, gitignore, babelrc, compilerc, nodeModules, disk0,
                   gitignore0, ignoreWrites>>
    /\ UNCHANGED <<readJSON, gitRepo, interactive, electronName, electronVersion, exitCode,
                   declined, prompts, runs>>
    /\ UNCHANGED <<varsPackage, varsMerge>>

\* a mutant of NeedsOutEntry: looks for a terminated line "out/\n"
NeedsOutEntryLine(text) == ~Includes(text, OutEntry \o <<NL>>)

\* gitignore.includes('out') on the file's bytes
NeedsOutEntry(text) == ~Includes(text, OutWord)

ImportFixGitignore ==
    /\ ipc = "gitignore"
    /\ IF gitignore.exists /\ NeedsOutEntry(gitignore.text)
       THEN /\ gitignore' = [gitignore EXCEPT !.text = @ \o <<NL>> \o OutEntry]
            /\ effects' = Append(effects, "writeGitignore")
            /\ ignoreWrites' = ignoreWrites + 1
       ELSE UNCHANGED <<gitignore, effects, ignoreWrites>>
    /\ ipc' = "babel"
    /\ UNCHANGED <<dirExists, disk, babelrc, compilerc, nodeModules, disk0, gitignore0>>
    /\ UNCHANGED <<readJSON, gitRepo, interactive, packageJSON, electronName, electronVersion,
                   exitCode, declined, prompts, runs>>
    /\ UNCHANGED <<varsPackage, varsMerge>>

\* Ports the babel configuration (inline, or else .babelrc) into .compilerc.
ImportPortBabel ==
    /\ ipc = "babel"
    /\ LET inline == Has(packageJSON, "babel")
           found == inline \/ babelrc.exists
           babelConfig == IF inline THEN packageJSON.babel ELSE babelrc.json
           compileConfig == IF compilerc.exists THEN compilerc.json ELSE EmptyObject
       IN  IF found
           THEN /\ compilerc' = [exists |-> TRUE,
                                 json |-> ObjectAssign(compileConfig,
                                              [x \in {BabelKey} |-> babelConfig])]
                /\ effects' = Append(effects, "writeCompilerc")
           ELSE UNCHANGED <<compilerc, effects>>
    /\ ipc' = "done"
    /\ UNCHANGED <<dirExists, disk, gitignore, babelrc, nodeModules, disk0, gitignore0,
                   ignoreWrites>>
    /\ UNCHANGED <<readJSON, gitRepo, interactive, packageJSON, electronName, electronVersion,
                   exitCode, declined, prompts, runs>>
    /\ UNCHANGED <<varsPackage, varsMerge>>

ImportNext ==
    \/ ImportValidate
    \/ ImportConfirm
    \/ ImportInitGit
    \/ ImportReadManifest
    \/ ImportChangeMain
    \/ ImportScanDependencies
    \/ ImportReadElectronVersion
    \/ ImportWriteManifest
    \/ ImportPrune
    \/ ImportInstall
    \/ ImportInjectForgeConfig
    \/ ImportFixGitignore
    \/ ImportPortBabel

----------------------------------------------------------------------------
(* The directories import starts on *)

\* the mappings of n distinct names, in every order
DepLists(n) ==
    {[i \in 1..n |-> DepEntry(s[i], DeclaredRange)] :
        s \in {t \in [1..n -> DepNames] : \A i, j \in 1..n : t[i] = t[j] => i = j}}

\* a manifest with the given mappings; an empty mapping may also be absent
ManifestOf(hasDeps, deps, hasDev, dev) ==
    LET base == [x \in {"main"} |-> "index.js"]
        m1 == IF hasDeps THEN SetField(base, "dependencies", deps) ELSE base
    IN  IF hasDev THEN SetField(m1, "devDependencies", dev) ELSE m1

DeclaredManifests ==
    UNION {{ManifestOf(hd, d, hv, v) :
                hd \in (IF i = 0 THEN BOOLEAN ELSE {TRUE}),
                hv \in (IF j = 0 THEN BOOLEAN ELSE {TRUE}),
                d \in DepLists(i), v \in DepLists(j)} :
           <<i, j>> \in {p \in (0..MaxKeys) \X (0..MaxKeys) : p[1] + p[2] <= MaxKeys}}

\* a project with a runtime dependency, plain, already configured, or with
\* an inline babel configuration
ElectronManifest ==
    ManifestOf(TRUE, <<DepEntry("lodash", DeclaredRange)>>,
               TRUE, <<DepEntry("electron", DeclaredRange)>>)

FileManifests ==
    {ElectronManifest,
     SetField(ElectronManifest, "config", [x \in {"forge"} |-> "own-forge-config"]),
     SetField(ElectronManifest, "config", [x \in {"other"} |-> "own-setting"]),
     SetField(ElectronManifest, "babel", "inline-babel-config")}

IgnoreLines ==
    {<<"d", "i", "s", "t">>, OutEntry, <<"l", "a", "y", "o", "u", "t">>, <<>>}

IgnoreTexts ==
    {JoinLines(ls) : ls \in UNION {[1..n -> IgnoreLines] : n \in 0..MaxLines}}

NoFile == [exists |-> FALSE]

IgnoreFiles == {NoFile} \cup {[exists |-> TRUE, text |-> t] : t \in IgnoreTexts}

BabelrcFiles == {NoFile, [exists |-> TRUE, json |-> "babelrc-config"]}

CompilercFiles ==
    {NoFile, [exists |-> TRUE, json |-> [x \in {"text/less"} |-> "less-config"]]}

InstalledModules ==
    [ModuleNames -> Versions \cup {""}]

AllInstalled == [n \in ModuleNames |-> IF n = "electron" THEN "1.4.0" ELSE "1.6.2"]

ImportIdle ==
    /\ ipc = "idle"
    /\ interactive = FALSE
    /\ packageJSON = EmptyObject
    /\ readJSON = EmptyObject
    /\ electronName = ""
    /\ electronVersion = ""
    /\ exitCode = -1
    /\ declined = ""
    /\ prompts = {}
    /\ effects = <<>>
    /\ runs = 0
    /\ gitRepo = FALSE
    /\ ignoreWrites = 0
    /\ disk0 = disk
    /\ gitignore0 = gitignore

\* no directory, or a directory without a manifest
InitNoProject ==
    /\ dirExists \in BOOLEAN
    /\ disk = NoFile
    /\ gitignore \in (IF dirExists THEN {NoFile, [exists |-> TRUE, text |-> <<>>]}
                      ELSE {NoFile})
    /\ babelrc \in (IF dirExists THEN BabelrcFiles ELSE {NoFile})
    /\ compilerc = NoFile
    /\ nodeModules = [n \in ModuleNames |-> ""]

\* every manifest, in a directory without the other files
InitManifests ==
    /\ dirExists = TRUE
    /\ disk \in {[exists |-> TRUE, json |-> m] : m \in DeclaredManifests}
    /\ gitignore = NoFile
    /\ babelrc = NoFile
    /\ compilerc = NoFile
    /\ nodeModules \in InstalledModules

\* every combination of the other files, around a few manifests
InitFiles ==
    /\ dirExists = TRUE
    /\ disk \in {[exists |-> TRUE, json |-> m] : m \in FileManifests}
    /\ gitignore \in IgnoreFiles
    /\ babelrc \in BabelrcFiles
    /\ compilerc \in CompilercFiles
    /\ nodeModules = AllInstalled

ImportInit ==
    /\ InitNoProject \/ InitManifests \/ InitFiles
    /\ ImportIdle

----------------------------------------------------------------------------
(* Paths, as sequences of segments from the root *)

\* path.resolve(base, rel) for a relative rel: "." and ".." are folded away
RECURSIVE PathResolve(_, _)
PathResolve(base, rel) ==
    IF rel = <<>> THEN base
    ELSE LET h == Head(rel)
         IN  PathResolve(IF h = "." THEN base
                         ELSE IF h = ".." THEN SubSeq(base, 1, Len(base) - 1)
                         ELSE Append(base, h),
                         Tail(rel))

\* path.dirname(p)
Dirname(p) == SubSeq(p, 1, Len(p) - 1)

IsPrefix(a, b) == Len(a) <= Len(b) /\ SubSeq(b, 1, Len(a)) = a

\* the project directory, as resolveDir names it
ProjectDir == <<"tmp", "app">>

\* where the project directory really is: behind a symbolic link (as /tmp is
\* on macOS) the real path differs from the path the program holds
RealDir == IF dirSymlinked THEN <<"private", "tmp", "app">> ELSE ProjectDir

\* the files of the project, relative to its root
ProjectFiles ==
    {<<"package.json">>, <<"index.js">>, <<"main.js">>,
     <<"src", "index.js">>, <<"src", "main.js">>}

NotFound == <<>>

\* fs.realpath(p), for a path into the project
Realpath(p) ==
    IF IsPrefix(ProjectDir, p)
    THEN RealDir \o SubSeq(p, Len(ProjectDir) + 1, Len(p))
    ELSE p

IsFile(p) == \E f \in ProjectFiles : Realpath(p) = RealDir \o f

(* require.resolve(p) for an absolute p: the file itself, else the file with
   the .js extension, else the directory's index.js; the result is the real
   path of the file (Node resolves symbolic links), NotFound when the lookup
   throws MODULE_NOT_FOUND. *)
RequireResolve(p) ==
    IF p = <<>> THEN NotFound
    ELSE IF IsFile(p) THEN Realpath(p)
    ELSE IF IsFile([p EXCEPT ![Len(p)] = @ \o ".js"])
    THEN Realpath([p EXCEPT ![Len(p)] = @ \o ".js"])
    ELSE IF IsFile(Append(p, "index.js")) THEN Realpath(Append(p, "index.js"))
    ELSE NotFound

----------------------------------------------------------------------------
(* The package orchestrator: the options object *)

Bool(b) == [type |-> "boolean", value |-> b]

Obj(fields) == [type |-> "object", fields |-> fields]

Fn(id) == [kind |-> "function", id |-> id]

Str(path) == [kind |-> "string", path |-> path]

\* the three afterCopy hooks and the afterPrune hook the orchestrator injects
CleanBuildHook == Fn("forge:clean-staged-build")

CompileHook == Fn("forge:compile")

StripForgeConfigHook == Fn("forge:strip-forge-config")

RebuildHook == Fn("forge:rebuild")

\* requireSearch(dir, [name]): the function the named file exports
RequireSearch(name) == Fn(name)

\* an optional property of a configuration: [defined, value]
Lookup(o, k) == IF Has(o, k) THEN [defined |-> TRUE, value |-> o[k]]
                ELSE [defined |-> FALSE]

\* resolveHooks(hooks, dir)
ResolveHooks(hooks) ==
    IF hooks.defined
    THEN [i \in 1..Len(hooks.value) |->
             IF hooks.value[i].kind = "string"
             THEN RequireSearch(hooks.value[i].path)
             ELSE hooks.value[i]]
    ELSE <<>>

PackagerDefaults == [asar |-> Bool(FALSE), overwrite |-> Bool(TRUE)]

\* the third argument of Object.assign
InjectedOptions(cfg, a) ==
    [afterCopy |-> <<CleanBuildHook, CompileHook, StripForgeConfigHook>>
                      \o ResolveHooks(Lookup(cfg, "afterCopy")),
     afterExtract |-> ResolveHooks(Lookup(cfg, "afterExtract")),
     afterPrune |-> <<RebuildHook>> \o ResolveHooks(Lookup(cfg, "afterPrune")),
     dir |-> ProjectDir,
     arch |-> a,
     platform |-> "linux",
     out |-> Append(ProjectDir, "out"),
     electronVersion |-> "1.6.2"]

\* a mutant of PackageOpts: the project's configuration is assigned last
PackageOptsConfigLast(cfg, a) ==
    SetField(ObjectAssign(ObjectAssign(PackagerDefaults, InjectedOptions(cfg, a)), cfg),
             "quiet", Bool(TRUE))

\* Object.assign({asar, overwrite}, electronPackagerConfig, {...}); quiet = true
PackageOpts(cfg, a) ==
    SetField(ObjectAssign(ObjectAssign(PackagerDefaults, cfg), InjectedOptions(cfg, a)),
             "quiet", Bool(TRUE))

\* typeof packageOpts.asar === 'object' && packageOpts.asar.unpack
WantsUnpack(opts) ==
    /\ opts.asar.type = "object"
    /\ Has(opts.asar.fields, "unpack")
    /\ opts.asar.fields.unpack # ""

----------------------------------------------------------------------------
(* The package orchestrator: steps *)

Event(s, e) == [step |-> s, ev |-> e]

Reject(error) ==
    /\ ppc' = "rejected"
    /\ pkgError' = error

PackageInputs == <<arch, dirFound, dirSymlinked, manifestMain, userConfig>>

EngineIdle == UNCHANGED <<engineArgs, enginePhase, targetsLeft>>

\* dir = await resolveDir(dir)
PackageResolveDir ==
    /\ ppc = "resolveDir"
    /\ IF ~dirFound
       THEN Reject("Failed to locate compilable Electron application")
       ELSE ppc' = "checkMain" /\ UNCHANGED pkgError
    /\ UNCHANGED <<packageOpts, packagerSpinner, prepareCounter, stagedForge, stepLog>>
    /\ UNCHANGED PackageInputs
    /\ EngineIdle
    /\ UNCHANGED <<varsImport, varsMerge>>

\* path.dirname(require.resolve(path.resolve(dir, packageJSON.main))) === dir
MainInTopLevel(main) == Dirname(RequireResolve(PathResolve(ProjectDir, main))) = ProjectDir

\* Reads the manifest and refuses an entry point in the top level directory.
PackageCheckMain ==
    /\ ppc = "checkMain"
    /\ IF RequireResolve(PathResolve(ProjectDir, manifestMain)) = NotFound
       THEN Reject("MODULE_NOT_FOUND")
       ELSE IF MainInTopLevel(manifestMain)
       THEN Reject("The entry point must be in a subfolder")
       ELSE ppc' = "options" /\ UNCHANGED pkgError
    /\ UNCHANGED <<packageOpts, packagerSpinner, prepareCounter, stagedForge, stepLog>>
    /\ UNCHANGED PackageInputs
    /\ EngineIdle
    /\ UNCHANGED <<varsImport, varsMerge>>

\* Loads the forge configuration, assembles the options, refuses asar.unpack.
PackageBuildOptions ==
    /\ ppc = "options"
    /\ packageOpts' = PackageOpts(userConfig, arch)
    /\ IF WantsUnpack(PackageOpts(userConfig, arch))
       THEN IF packagerSpinner
            THEN Reject("electron-compile does not support asar.unpack yet")
            ELSE Reject("TypeError: packagerSpinner is undefined")
       ELSE ppc' = "generateAssets" /\ UNCHANGED pkgError
    /\ UNCHANGED <<packagerSpinner, prepareCounter, stagedForge, stepLog>>
    /\ UNCHANGED PackageInputs
    /\ EngineIdle
    /\ UNCHANGED <<varsImport, varsMerge>>

\* a mutant of RunHook: a failed hook is not awaited, and the run goes on
RunHookUnawaited(name, next) ==
    /\ \E ok \in BOOLEAN :
          stepLog' = stepLog \o <<Event(name, "start"),
                                  Event(name, IF ok THEN "end" ELSE "fail")>>
    /\ ppc' = next
    /\ UNCHANGED pkgError

\* await runHook(forgeConfig, name): the hook ends, or fails and the run rejects
RunHook(name, next) ==
    \E ok \in BOOLEAN :
       /\ stepLog' = stepLog \o <<Event(name, "start"),
                                  Event(name, IF ok THEN "end" ELSE "fail")>>
       /\ IF ok THEN ppc' = next /\ UNCHANGED pkgError
          ELSE Reject("hook failed")

PackageGenerateAssets ==
    /\ ppc = "generateAssets"
    /\ RunHook("generateAssets", "prePackage")
    /\ UNCHANGED <<packageOpts, packagerSpinner, prepareCounter, stagedForge>>
    /\ UNCHANGED PackageInputs
    /\ EngineIdle
    /\ UNCHANGED <<varsImport, varsMerge>>

PackagePrePackage ==
    /\ ppc = "prePackage"
    /\ RunHook("prePackage", "packager")
    /\ UNCHANGED <<packageOpts, packagerSpinner, prepareCounter, stagedForge>>
    /\ UNCHANGED PackageInputs
    /\ EngineIdle
    /\ UNCHANGED <<varsImport, varsMerge>>

\* packager(packageOpts) is called; arch "all" builds several targets
PackageCallPackager ==
    /\ ppc = "packager"
    /\ ppc' = "engine"
    /\ engineArgs' = packageOpts
    /\ enginePhase' = "copy"
    /\ \E n \in 1..MaxTargets :
          /\ arch = "all" \/ n = 1
          /\ targetsLeft' = n
    /\ stepLog' = Append(stepLog, Event("packager", "start"))
    /\ UNCHANGED <<packageOpts, packagerSpinner, prepareCounter, stagedForge, pkgError>>
    /\ UNCHANGED PackageInputs
    /\ UNCHANGED <<varsImport, varsMerge>>

\* The engine runs the afterCopy hooks: the injected ones do their work.
EngineAfterCopy ==
    /\ ppc = "engine"
    /\ enginePhase = "copy"
    /\ prepareCounter' = IF packagerSpinner THEN prepareCounter + 1 ELSE prepareCounter
    /\ stagedForge' = FALSE
    /\ enginePhase' = "prune"
    /\ UNCHANGED <<ppc, packageOpts, packagerSpinner, stepLog, pkgError, engineArgs,
                   targetsLeft>>
    /\ UNCHANGED PackageInputs
    /\ UNCHANGED <<varsImport, varsMerge>>

\* The engine runs the afterPrune hooks: the injected one assigns packagerSpinner.
EngineAfterPrune ==
    /\ ppc = "engine"
    /\ enginePhase = "prune"
    /\ packagerSpinner' = TRUE
    /\ enginePhase' = "built"
    /\ UNCHANGED <<ppc, packageOpts, prepareCounter, stagedForge, stepLog, pkgError,
                   engineArgs, targetsLeft>>
    /\ UNCHANGED PackageInputs
    /\ UNCHANGED <<varsImport, varsMerge>>

\* The engine leaves out a list of hooks (nothing to prune, a target that is
\* already built).
EngineSkipHooks ==
    /\ ppc = "engine"
    /\ enginePhase \in {"copy", "prune"}
    /\ enginePhase' = IF enginePhase = "copy" THEN "prune" ELSE "built"
    /\ UNCHANGED <<ppc, packageOpts, packagerSpinner, prepareCounter, stagedForge, stepLog,
                   pkgError, engineArgs, targetsLeft>>
    /\ UNCHANGED PackageInputs
    /\ UNCHANGED <<varsImport, varsMerge>>

EngineNextTarget ==
    /\ ppc = "engine"
    /\ enginePhase = "built"
    /\ targetsLeft > 1
    /\ targetsLeft' = targetsLeft - 1
    /\ enginePhase' = "copy"
    /\ UNCHANGED <<ppc, packageOpts, packagerSpinner, prepareCounter, stagedForge, stepLog,
                   pkgError, engineArgs>>
    /\ UNCHANGED PackageInputs
    /\ UNCHANGED <<varsImport, varsMerge>>

\* The engine's promise resolves.
EngineResolve ==
    /\ ppc = "engine"
    /\ enginePhase = "built"
    /\ targetsLeft = 1
    /\ ppc' = "postPackage"
    /\ stepLog' = Append(stepLog, Event("packager", "end"))
    /\ UNCHANGED <<packageOpts, packagerSpinner, prepareCounter, stagedForge, pkgError,
                   engineArgs, enginePhase, targetsLeft>>
    /\ UNCHANGED PackageInputs
    /\ UNCHANGED <<varsImport, varsMerge>>

\* The engine, or a hook it runs, fails: the orchestrator rejects.
EngineReject ==
    /\ ppc = "engine"
    /\ Reject("packager failed")
    /\ stepLog' = Append(stepLog, Event("packager", "fail"))
    /\ UNCHANGED <<packageOpts, packagerSpinner, prepareCounter, stagedForge, engineArgs,
                   enginePhase, targetsLeft>>
    /\ UNCHANGED PackageInputs
    /\ UNCHANGED <<varsImport, varsMerge>>

PackagePostPackage ==
    /\ ppc = "postPackage"
    /\ RunHook("postPackage", "succeed")
    /\ UNCHANGED <<packageOpts, packagerSpinner, prepareCounter, stagedForge>>
    /\ UNCHANGED PackageInputs
    /\ EngineIdle
    /\ UNCHANGED <<varsImport, varsMerge>>

\* packagerSpinner.succeed()
PackageSucceed ==
    /\ ppc = "succeed"
    /\ IF packagerSpinner
       THEN ppc' = "resolved" /\ UNCHANGED pkgError
       ELSE Reject("TypeError: packagerSpinner is undefined")
    /\ UNCHANGED <<packageOpts, packagerSpinner, prepareCounter, stagedForge, stepLog>>
    /\ UNCHANGED PackageInputs
    /\ EngineIdle
    /\ UNCHANGED <<varsImport, varsMerge>>

PackageNext ==
    \/ PackageResolveDir
    \/ PackageCheckMain
    \/ PackageBuildOptions
    \/ PackageGenerateAssets
    \/ PackagePrePackage
    \/ PackageCallPackager
    \/ EngineAfterCopy
    \/ EngineAfterPrune
    \/ EngineSkipHooks
    \/ EngineNextTarget
    \/ EngineResolve
    \/ EngineReject
    \/ PackagePostPackage
    \/ PackageSucceed

----------------------------------------------------------------------------
(* The projects package starts on *)

MainChoices ==
    {<<"index.js">>, <<"index">>, <<".", "main.js">>, <<"src", "..", "main.js">>,
     <<"src", "index.js">>, <<"src", "main">>, <<"src">>, <<"lib", "index.js">>}

UserHooks == {Fn("project:hook-function"), Str("hooks/project-hook.js")}

HookLists == UNION {[1..n -> UserHooks] : n \in 0..MaxHooks}

AsarChoices ==
    {Bool(FALSE), Bool(TRUE),
     Obj([unpackDir |-> "vendor"]),
     Obj([unpack |-> "*.node"])}

\* the electronPackagerConfig objects: every subset of the keys, every value
Configs(keys, values) ==
    UNION {[ks -> values] : ks \in SUBSET keys}

UserConfigs ==
    {ObjectAssign(a, h) :
        a \in Configs({"asar"}, AsarChoices),
        h \in Configs({"afterCopy", "afterPrune"}, HookLists)}

PackageInit ==
    /\ arch \in {"x64", "all"}
    /\ dirFound \in BOOLEAN
    /\ dirSymlinked \in BOOLEAN
    /\ manifestMain \in (IF dirFound THEN MainChoices ELSE {<<"index.js">>})
    /\ userConfig \in (IF dirFound THEN UserConfigs ELSE {EmptyObject})
    /\ ppc = "resolveDir"
    /\ packageOpts = EmptyObject
    /\ packagerSpinner = FALSE
    /\ prepareCounter = 0
    /\ stagedForge = TRUE
    /\ stepLog = <<>>
    /\ pkgError = ""
    /\ engineArgs = EmptyObject
    /\ enginePhase = ""
    /\ targetsLeft = 0

\* package is not running
PackageQuiet ==
    /\ arch = "x64"
    /\ dirFound = FALSE
    /\ dirSymlinked = FALSE
    /\ manifestMain = <<>>
    /\ userConfig = EmptyObject
    /\ ppc = "idle"
    /\ packageOpts = EmptyObject
    /\ packagerSpinner = FALSE
    /\ prepareCounter = 0
    /\ stagedForge = TRUE
    /\ stepLog = <<>>
    /\ pkgError = ""
    /\ engineArgs = EmptyObject
    /\ enginePhase = ""
    /\ targetsLeft = 0

\* import is not running
ImportQuiet ==
    /\ dirExists = FALSE
    /\ disk = NoFile
    /\ gitignore = NoFile
    /\ babelrc = NoFile
    /\ compilerc = NoFile
    /\ nodeModules = [n \in ModuleNames |-> ""]
    /\ ipc = "off"
    /\ interactive = FALSE
    /\ packageJSON = EmptyObject
    /\ readJSON = EmptyObject
    /\ electronName = ""
    /\ electronVersion = ""
    /\ exitCode = -1
    /\ declined = ""
    /\ prompts = {}
    /\ effects = <<>>
    /\ runs = 0
    /\ gitRepo = FALSE
    /\ ignoreWrites = 0
    /\ disk0 = NoFile
    /\ gitignore0 = NoFile

\* the merge is not running
MergeQuiet ==
    /\ mpc = "idle"
    /\ forgeConfig = EmptyObject
    /\ pkgArch = ""
    /\ outPath = <<>>
    /\ config = EmptyObject
    /\ merged = EmptyObject
    /\ written = {}

----------------------------------------------------------------------------
(* The maker configuration: values *)

(* A configuration value is a primitive [t |-> "prim", v], a plain object
   [t |-> "obj", f] or an array [t |-> "arr", f]; f maps the keys to the
   values, and the keys of an array are its indices "0", "1", ... *)
Prim(v) == [t |-> "prim", v |-> v]

Ob(f) == [t |-> "obj", f |-> f]

Ar(f) == [t |-> "arr", f |-> f]

IsContainer(x) == x.t \in {"obj", "arr"}

IndexKey == <<"0", "1", "2", "3", "4">>

\* the array of the elements of a sequence
ArrayOf(s) == Ar([k \in {IndexKey[i] : i \in 1..Len(s)} |->
                     s[CHOOSE i \in 1..Len(s) : IndexKey[i] = k]])

\* the path as a string
RECURSIVE JoinPath(_)
JoinPath(p) == IF p = <<>> THEN "" ELSE "/" \o Head(p) \o JoinPath(Tail(p))

PathString(p) == IF p = <<>> THEN "/" ELSE JoinPath(p)

----------------------------------------------------------------------------
(* lodash merge *)

(* baseMerge(object, source), with baseMergeDeep and assignMergeValue: the
   result is [v, w], v the object after the merge and w the owners of the
   objects that were assigned into. object belongs to owner; an object the
   merge creates belongs to "fresh". *)
RECURSIVE BaseMerge(_, _, _)
BaseMerge(object, owner, source) ==
    LET keys == DOMAIN source.f
        has(k) == k \in DOMAIN object.f
        \* baseMergeDeep: the value merged into, and whether it is object[k] itself
        reuse(k) == IF ~has(k) THEN FALSE
                    ELSE IF source.f[k].t = "arr" THEN object.f[k].t = "arr"
                    ELSE IsContainer(object.f[k])
        into(k) == IF reuse(k) THEN object.f[k]
                   ELSE [t |-> source.f[k].t, f |-> EmptyObject]
        deep(k) == BaseMerge(into(k), IF reuse(k) THEN owner ELSE "fresh", source.f[k])
        \* assignMergeValue assigns unless the value is the one already there
        same(k) == /\ has(k)
                   /\ object.f[k].t = "prim"
                   /\ object.f[k].v = source.f[k].v
        assigned(k) == IF IsContainer(source.f[k]) THEN ~reuse(k) ELSE ~same(k)
        value(k) == IF IsContainer(source.f[k]) THEN deep(k).v ELSE source.f[k]
    IN  [v |-> [t |-> object.t,
                f |-> [k \in DOMAIN object.f \cup keys |->
                          IF k \in keys THEN value(k) ELSE object.f[k]]],
         w |-> (IF \E k \in keys : assigned(k) THEN {owner} ELSE {})
               \cup UNION {deep(k).w : k \in {j \in keys : IsContainer(source.f[j])}}]

\* a mutant of Merge: Object.assign, which replaces every value wholesale
MergeShallow(object, owner, a, b, c) ==
    [v |-> Ob(ObjectAssign(ObjectAssign(ObjectAssign(object.f, a.f), b.f), c.f)),
     w |-> {owner}]

\* merge(object, a, b, c): the sources are merged in, in that order
Merge(object, owner, a, b, c) ==
    LET m1 == BaseMerge(object, owner, a)
        m2 == BaseMerge(m1.v, owner, b)
        m3 == BaseMerge(m2.v, owner, c)
    IN  [v |-> m3.v, w |-> m1.w \cup m2.w \cup m3.w]

----------------------------------------------------------------------------
(* The maker configuration: populate and merge *)

SharedKey == "desktopLinuxConfig"

\* the maker's configKey
MakerKey == "electronInstallerDebian"

\* the staged application, the `dir` of the merge
StagedDir == "/tmp/app/out/app-linux-x64"

\* populateConfig(forgeConfig, configKey, targetArch); forgeConfig[configKey] is
\* the configuration object that configFn yields for the target architecture
PopulateConfig(fc, configKey, targetArch) ==
    LET cfg == IF Has(fc, configKey) THEN fc[configKey] ELSE Ob(EmptyObject)
    IN  IF Has(cfg.f, "options") THEN cfg
        ELSE Ob(SetField(cfg.f, "options", Ob(EmptyObject)))

\* populate({ forgeConfig, configKey, targetArch })
Populate(fc, configKey, targetArch) ==
    [shared |-> PopulateConfig(fc, SharedKey, targetArch),
     maker |-> PopulateConfig(fc, configKey, targetArch)]

\* the maker calls populate for its configKey
MergePopulate ==
    /\ mpc = "start"
    /\ config' = Populate(forgeConfig, MakerKey, pkgArch)
    /\ mpc' = "populated"
    /\ UNCHANGED <<forgeConfig, pkgArch, outPath, merged, written>>
    /\ UNCHANGED <<varsImport, varsPackage>>

\* the last source of the merge
RuntimeFields(a, dir, out) ==
    Ob([arch |-> Prim(a), dest |-> Prim(PathString(Dirname(out))), src |-> Prim(dir)])

\* merge({}, config.shared, config.maker, { arch, dest, src })
MergeConfig ==
    /\ mpc = "populated"
    /\ LET r == Merge(Ob(EmptyObject), "fresh", config.shared, config.maker,
                      RuntimeFields(pkgArch, StagedDir, outPath))
       IN  /\ merged' = r.v
           /\ written' = r.w
    /\ mpc' = "merged"
    /\ UNCHANGED <<forgeConfig, pkgArch, outPath, config>>
    /\ UNCHANGED <<varsImport, varsPackage>>

MergeNext ==
    \/ MergePopulate
    \/ MergeConfig

(* The configurations of the model *)

Prims == {Prim("a"), Prim("b")}

NestedKeys == {"x", "y"}

Arrays == {ArrayOf(s) : s \in UNION {[1..n -> Prims] : n \in 0..MaxArr}}

Objects == {Ob(f) : f \in UNION {[ks -> Prims] : ks \in SUBSET NestedKeys}}

OptionValues == Prims \cup Arrays \cup Objects

\* `options`: absent, or a mapping that is empty or holds `depends`
OptionsChoices ==
    {Ob(f) : f \in UNION {[ks -> OptionValues] : ks \in SUBSET {"depends"}}}

MakerConfigs ==
    {Ob(ObjectAssign(o, a)) :
        o \in UNION {[ks -> OptionsChoices] : ks \in SUBSET {"options"}},
        a \in UNION {[ks -> {Prim("ia32"), Prim("b")}] : ks \in SUBSET {"arch"}}}

ForgeConfigs ==
    UNION {[ks -> MakerConfigs] : ks \in SUBSET {SharedKey, MakerKey}}

\* an option that both configurations set is a list in both or in neither
SameSchema(fc) ==
    (/\ Has(fc, SharedKey) /\ Has(fc, MakerKey)
     /\ Has(fc[SharedKey].f, "options") /\ Has(fc[MakerKey].f, "options"))
        => \A k \in DOMAIN fc[SharedKey].f.options.f \cap DOMAIN fc[MakerKey].f.options.f :
              fc[SharedKey].f.options.f[k].t = "arr" <=> fc[MakerKey].f.options.f[k].t = "arr"

MergeInit ==
    /\ forgeConfig \in {fc \in ForgeConfigs : SameSchema(fc)}
    /\ pkgArch \in {"x64"}
    /\ outPath \in {<<"tmp", "make", "app.deb">>, <<"app.rpm">>}
    /\ mpc = "start"
    /\ config = EmptyObject
    /\ merged = EmptyObject
    /\ written = {}

----------------------------------------------------------------------------
(* Specifications: one per entry point *)

InitOfImport == ImportInit /\ PackageQuiet /\ MergeQuiet

SpecImport == InitOfImport /\ [][ImportNext]_vars

InitOfPackage == PackageInit /\ ImportQuiet /\ MergeQuiet

SpecPackage == InitOfPackage /\ [][PackageNext]_vars

InitOfMerge == MergeInit /\ ImportQuiet /\ PackageQuiet

SpecMerge == InitOfMerge /\ [][MergeNext]_vars

----------------------------------------------------------------------------
(* Properties of the import orchestrator *)

DepsOf(m) == IF Has(m, "dependencies") THEN m.dependencies ELSE <<>>

DevOf(m) == IF Has(m, "devDependencies") THEN m.devDependencies ELSE <<>>

LegacyDeclared(m) == (DepNamesOf(DepsOf(m)) \cup DepNamesOf(DevOf(m))) \cap LegacyKeys

Happened(e) == \E i \in 1..Len(effects) : effects[i] = e

FileWrites == {"writeManifest", "writeGitignore", "writeCompilerc"}

(* C1: a run of import on a directory that does not exist, or that holds no
   package.json, exits the process with code 1 and changes nothing: no git
   initialisation, no write of the manifest, of .gitignore or of .compilerc,
   no prune and no install, and no prompt. *)
C1_NoProjectNoMutation ==
    (runs > 0 /\ (~dirExists \/ ~disk.exists)) =>
        /\ ipc = "exited"
        /\ exitCode = 1
        /\ effects = <<>>
        /\ prompts = {}
        /\ ~gitRepo
        /\ disk = disk0
        /\ gitignore = gitignore0
        /\ ~compilerc.exists

C1_Witness ==
    /\ runs = 2
    /\ ipc = "exited"
    /\ exitCode = 1
    /\ dirExists
    /\ ~disk.exists

(* C2: once a run has written the manifest, neither mapping of the written
   manifest holds `electron` or `electron-prebuilt`, no other key was removed
   unless it is a build tool, and no prompt was asked about a runtime key.
   If the manifest read declared a runtime key, devDependencies holds
   electron-prebuilt-compile at the version of the installed runtime package
   that was detected, and the finished run has pruned and installed; if it
   declared none, the electron-prebuilt-compile entry is as it was read and
   neither prune nor install runs. *)
C2_LegacyRuntimeReplaced ==
    LET legacy == LegacyDeclared(readJSON)
        deps0 == DepNamesOf(DepsOf(readJSON))
        dev0 == DepNamesOf(DevOf(readJSON))
    IN  /\ \A p \in prompts : p.key \notin LegacyKeys
        /\ legacy = {} => ~Happened("prune") /\ ~Happened("install")
        /\ Happened("writeManifest") =>
             LET deps == DepNamesOf(disk.json.dependencies)
                 dev == DepNamesOf(disk.json.devDependencies)
             IN  /\ deps \cap LegacyKeys = {}
                 /\ dev \cap LegacyKeys = {}
                 /\ deps0 \ (LegacyKeys \cup BuildToolPackages) \subseteq deps
                 /\ deps \subseteq deps0 \ LegacyKeys
                 /\ dev0 \ (LegacyKeys \cup BuildToolPackages) \subseteq dev
                 /\ dev \ {CompileKey} \subseteq dev0 \ LegacyKeys
                 /\ legacy # {} =>
                      /\ electronName \in legacy
                      /\ electronVersion \in Versions
                      /\ CompileKey \in dev
                      /\ RangeOf(disk.json.devDependencies, CompileKey) = electronVersion
                      /\ ipc \in {"prune", "install"} =>
                            electronVersion = nodeModules[electronName]
                      /\ ipc = "done" => Happened("prune") /\ Happened("install")
                 /\ legacy = {} =>
                      /\ electronName = ""
                      /\ CompileKey \in dev <=> CompileKey \in dev0
                      /\ CompileKey \in dev =>
                            RangeOf(disk.json.devDependencies, CompileKey)
                                = RangeOf(DevOf(readJSON), CompileKey)

C2_Witness ==
    /\ ipc = "done"
    /\ interactive
    /\ LegacyDeclared(readJSON) = LegacyKeys
    /\ electronName = "electron-prebuilt"
    /\ DepNamesOf(disk.json.devDependencies) = {CompileKey}
    /\ RangeOf(disk.json.devDependencies, CompileKey) = "1.6.2"

(* C3: import does not duplicate the ignore entry. Over any number of runs on
   a directory, .gitignore is written at most once; the number of `out/`
   lines never exceeds one, or the number the file had before the first run;
   a file that already has the entry is left as it is; and a directory
   without .gitignore gets none. *)
C3_IgnoreEntryNotDuplicated ==
    /\ ignoreWrites <= 1
    /\ ~gitignore0.exists => gitignore = gitignore0
    /\ gitignore0.exists =>
         LET before == EntryCount(gitignore0.text, OutEntry)
             now == EntryCount(gitignore.text, OutEntry)
         IN  /\ gitignore.exists
             /\ now <= (IF before = 0 THEN 1 ELSE before)
             /\ before >= 1 => gitignore = gitignore0
             /\ ignoreWrites = 1 => now = 1

C3_Witness ==
    /\ runs = 2
    /\ ipc = "done"
    /\ ignoreWrites = 1
    /\ ~Happened("writeGitignore")
    /\ EntryCount(gitignore.text, OutEntry) = 1
    /\ EntryCount(gitignore0.text, OutEntry) = 0

(* C9: a declined confirmation is an intentional abort, not an error: the run
   ends with exit code 0 and writes no file after it; and a run that is not
   interactive asks nothing and never stops at a confirmation. *)
C9_DeclineIsIntentionalAbort ==
    /\ declined # "" =>
         /\ ipc = "exited"
         /\ exitCode = 0
         /\ \A i \in 1..Len(effects) : effects[i] \notin FileWrites
    /\ ~interactive => prompts = {} /\ declined = ""

----------------------------------------------------------------------------
(* Properties of the package orchestrator *)

BeforeOptions == {"idle", "resolveDir", "checkMain"}

\* the file packageJSON.main resolves to, NotFound if there is none
ResolvedMain == RequireResolve(PathResolve(ProjectDir, manifestMain))

NoPackagingWork ==
    /\ stepLog = <<>>
    /\ engineArgs = EmptyObject
    /\ ~packagerSpinner

(* C4: whenever packageJSON.main resolves to a file directly inside the
   project root, package rejects with the entry point error, and it does so
   before any packaging work: no lifecycle hook has run and the engine has
   not been called. *)
C4_TopLevelMainRejected ==
    (/\ dirFound
     /\ ppc \notin BeforeOptions
     /\ ResolvedMain # NotFound
     /\ Dirname(ResolvedMain) = RealDir)
        => /\ ppc = "rejected"
           /\ pkgError = "The entry point must be in a subfolder"
           /\ NoPackagingWork

(* C5: when the assembled options have asar as an object with a truthy
   unpack, package rejects with the error saying that asar.unpack is not
   supported, before any packaging work. *)
C5_UnpackRejectedDescriptively ==
    (/\ Has(packageOpts, "asar")
     /\ WantsUnpack(packageOpts))
        => /\ ppc = "rejected"
           /\ pkgError = "electron-compile does not support asar.unpack yet"
           /\ NoPackagingWork

UserList(key) == IF Has(userConfig, key) THEN userConfig[key] ELSE <<>>

\* hook h of the options stands for entry u of the project's list
PassedThrough(h, u) ==
    /\ h.kind = "function"
    /\ u.kind = "function" => h = u
    /\ u.kind = "string" => h.id = u.path

(* C6: in the options the engine is called with, afterCopy is the three
   injected hooks (clean, compile, strip) in that order followed by the
   project's afterCopy hooks in their order, and afterPrune is the injected
   rebuild hook followed by the project's afterPrune hooks in their order;
   functions are passed as they are, names are resolved in place, an absent
   list adds nothing, whatever the project's electronPackagerConfig holds. *)
C6_InjectedHooksFirst ==
    engineArgs # EmptyObject =>
        LET copy == engineArgs.afterCopy
            prune == engineArgs.afterPrune
        IN  /\ engineArgs = packageOpts
            /\ Len(copy) = 3 + Len(UserList("afterCopy"))
            /\ SubSeq(copy, 1, 3) = <<CleanBuildHook, CompileHook, StripForgeConfigHook>>
            /\ \A i \in 1..Len(UserList("afterCopy")) :
                  PassedThrough(copy[3 + i], UserList("afterCopy")[i])
            /\ Len(prune) = 1 + Len(UserList("afterPrune"))
            /\ prune[1] = RebuildHook
            /\ \A i \in 1..Len(UserList("afterPrune")) :
                  PassedThrough(prune[1 + i], UserList("afterPrune")[i])

C6_Witness ==
    /\ engineArgs # EmptyObject
    /\ UserList("afterCopy") = <<Str("hooks/project-hook.js"), Fn("project:hook-function")>>
    /\ Len(UserList("afterPrune")) = 1
    /\ Len(engineArgs.afterCopy) = 5

StepOrder == <<"generateAssets", "prePackage", "packager", "postPackage">>

(* C7: the lifecycle runs in one order, each step ended before the next
   starts: generateAssets, prePackage, the engine call, postPackage. The
   engine works only between the start and the end of its call, and a step
   that fails is the last thing of the run. *)
C7_LifecycleInOrder ==
    /\ Len(stepLog) <= 2 * Len(StepOrder)
    /\ \A i \in 1..Len(stepLog) :
          /\ stepLog[i].step = StepOrder[(i + 1) \div 2]
          /\ stepLog[i].ev = (IF i % 2 = 1 THEN "start"
                              ELSE IF stepLog[i].ev = "fail" THEN "fail" ELSE "end")
          /\ stepLog[i].ev = "fail" => i = Len(stepLog) /\ ppc = "rejected"
    /\ ppc = "engine" <=> (Len(stepLog) = 5 /\ stepLog[5] = Event("packager", "start"))
    /\ engineArgs # EmptyObject => Len(stepLog) >= 5
    /\ packagerSpinner => Len(stepLog) >= 5

C7_Witness ==
    /\ Len(stepLog) = 8
    /\ stepLog[8] = Event("postPackage", "end")
    /\ packagerSpinner
    /\ ppc = "resolved"

(* C10: packagerSpinner is never used while it is unassigned: no run ends
   with the TypeError of a method call on undefined, and a run whose hooks
   and engine call all succeed resolves. *)
C10_SpinnerAssignedBeforeUse ==
    /\ pkgError # "TypeError: packagerSpinner is undefined"
    /\ (Len(stepLog) = 8 /\ stepLog[8].ev = "end") => ppc \in {"succeed", "resolved"}

----------------------------------------------------------------------------
(* Properties of the maker configuration *)

RuntimeKeys == {"arch", "dest", "src"}

\* r holds the keys of s and of m, and rule(r[k], s[k], m[k]) where both have k
KeyByKey(r, s, m, rule(_, _, _)) ==
    /\ DOMAIN r.f = DOMAIN s.f \cup DOMAIN m.f
    /\ \A k \in DOMAIN r.f :
          IF k \in DOMAIN s.f /\ k \in DOMAIN m.f THEN rule(r.f[k], s.f[k], m.f[k])
          ELSE IF k \in DOMAIN m.f THEN r.f[k] = m.f[k]
          ELSE r.f[k] = s.f[k]

\* the claim's rule: mappings merge key by key, any other value of m replaces
RECURSIVE MakerReplaces(_, _, _)
MakerReplaces(r, s, m) ==
    IF m.t = "obj" /\ s.t = "obj"
    THEN r.t = "obj" /\ KeyByKey(r, s, m, MakerReplaces)
    ELSE r = m

\* the rule with arrays: two mappings merge key by key and two arrays index by
\* index; any other value of m replaces
RECURSIVE MergedAs(_, _, _)
MergedAs(r, s, m) ==
    IF IsContainer(m) /\ m.t = s.t
    THEN r.t = m.t /\ KeyByKey(r, s, m, MergedAs)
    ELSE r = m

\* the merged configuration, under a rule for the keys both inputs have
MergedUnder(rule(_, _, _)) ==
    LET S == config.shared.f
        M == config.maker.f
        R == merged.f
    IN  /\ merged.t = "obj"
        /\ DOMAIN R = DOMAIN S \cup DOMAIN M \cup RuntimeKeys
        /\ R.arch = Prim(pkgArch)
        /\ R.src = Prim(StagedDir)
        /\ R.dest = Prim(PathString(Dirname(outPath)))
        /\ \A k \in DOMAIN R \ RuntimeKeys :
              IF k \in DOMAIN S /\ k \in DOMAIN M THEN rule(R[k], S[k], M[k])
              ELSE IF k \in DOMAIN M THEN R[k] = M[k]
              ELSE R[k] = S[k]
        /\ written \subseteq {"fresh"}
        /\ config = Populate(forgeConfig, MakerKey, pkgArch)

(* C8, as claimed: the merged configuration holds every key of either input;
   on a conflict a mapping is merged key by key and any other value of the
   maker's replaces the shared one wholesale; arch, dest and src are the
   given architecture, the parent of the output path and the given
   directory; and the merge assigns into no object of its inputs. *)
C8_NonMappingReplacedWholesale == mpc = "merged" => MergedUnder(MakerReplaces)

(* C8, amended: as above, but an array is not replaced wholesale when the
   shared configuration holds an array under the same key: the two arrays
   merge index by index (the maker's elements win, the shared array's
   elements stay at the indices the maker's array lacks). A primitive of the
   maker's, and a mapping or an array over a primitive, replace wholesale. *)
C8_ArraysMergedByIndex == mpc = "merged" => MergedUnder(MergedAs)

C8_Witness ==
    /\ mpc = "merged"
    /\ config.shared.f.options.f = [k \in {"depends"} |-> ArrayOf(<<Prim("a"), Prim("b")>>)]
    /\ config.maker.f.options.f = [k \in {"depends"} |-> ArrayOf(<<Prim("b")>>)]
    /\ merged.f.options.f.depends = ArrayOf(<<Prim("b"), Prim("b")>>)
    /\ Has(config.shared.f, "arch")
    /\ merged.f.arch = Prim("x64")

====
